---- MODULE Spec2Model ----
(***************************************************************************)
(* Word-level diff engine of the resume detail page: buildDiffHTML calls   *)
(* tokenize on both texts and diffWords on the token arrays; diffWords     *)
(* either hands the joined texts to diffLines or builds the LCS table,     *)
(* backtracks through it and merges the operations.                        *)
(*                                                                         *)
(* A text is a sequence of one-character strings.  An operation is a       *)
(* record [type, text] with type "equal", "insert" or "delete".            *)
(*                                                                         *)
(* The second part models three endpoints of the server, in its in-memory  *)
(* version (server.js) and its SQLite version: POST /api/resume/:id/clean, *)
(* POST /api/process and POST /api/upload.  The third part models pieces   *)
(* of the landing page script: the merge loop of diffWords on operation    *)
(* objects, the compare selection, collectCriteria, the reader of the      *)
(* event stream of a process request, and the Upload and Process buttons.  *)
(***************************************************************************)
EXTENDS Integers, Sequences, FiniteSets, TLC

VARIABLES oldText, newText, pc, oldTokens, newTokens, dlOldText, dlNewText,
          dp, i, j, ops, oldLines, newLines, oi, ni, result

\* the diff calls completed so far, each as <<oldText, newText, result>>
VARIABLE calls

\* which server is modelled: "memory" (server.js) or "sqlite"
VARIABLE version

\* clean endpoint: the resume's cleanedText field and the requests for it
VARIABLES cleanedText, cleanReqs

\* process endpoint: one request's ids, loop position, results and flags
VARIABLES resumeIds, ri, results, aborted, processPc

\* upload endpoint: one request's files, loop positions, results.length,
\* the files of the request that are on disk
VARIABLES files, fi, ei, uploaded, onDisk, uploadPc

diffVars == <<oldText, newText, pc, oldTokens, newTokens, dlOldText, dlNewText,
              dp, i, j, ops, oldLines, newLines, oi, ni, result>>

cleanVars == <<cleanedText, cleanReqs>>

processVars == <<resumeIds, ri, results, aborted, processPc>>

uploadVars == <<files, fi, ei, uploaded, onDisk, uploadPc>>

serverVars == <<version, cleanVars, processVars, uploadVars>>

\* merge loop: the operations as passed, the objects by identity (1..n are
\* the operations passed), the merged array as identities, the loop position
VARIABLES mergeRaw, heap, mergedObjs, mk, mergePc

\* compare selection and the two elements updateCompareBar writes
VARIABLES compareSelection, compareBarShown, compareBtnDisabled

\* collectCriteria: the rows of the form, the criteria returned
VARIABLES criteriaRows, criteria, collectPc

\* reader of the event stream: the events the server wrote, the characters
\* not yet read, the reader's variables, the events handed to handleSSEEvent
VARIABLES sseClient, sseSent, sseStream, sseBuffer, sseEventType, sseDataStr,
          sseHandled

\* Upload and Process buttons of the page and the requests they started
VARIABLES selectedFiles, uploadedResumeIds, uploadBtnDisabled,
          processBtnDisabled, uploadsInFlight, processesInFlight

mergeVars == <<mergeRaw, heap, mergedObjs, mk, mergePc>>

compareVars == <<compareSelection, compareBarShown, compareBtnDisabled>>

criteriaVars == <<criteriaRows, criteria, collectPc>>

sseVars == <<sseClient, sseSent, sseStream, sseBuffer, sseEventType,
             sseDataStr, sseHandled>>

buttonVars == <<selectedFiles, uploadedResumeIds, uploadBtnDisabled,
                processBtnDisabled, uploadsInFlight, processesInFlight>>

pageVars == <<mergeVars, compareVars, criteriaVars, sseVars, buttonVars>>

vars == <<diffVars, calls, serverVars, pageVars>>

(***************************************************************************)
(* Bounds of the model.                                                    *)
(***************************************************************************)
\* longest text of the exhaustively enumerated short inputs
MaxLen == 3
\* longest tail appended to the long padding line of a large input
MaxTail == 2
\* number of tokens of the padding line of a large input
PadTokens == 2237

\* the value of a field that holds null
Null == "null"

\* m * n > 5000000 in diffWords
SizeThreshold == 5000000
\* dp rows are Uint16Array: a store keeps the value modulo 2^16
Uint16Range == 65536

\* characters of the short texts
Alphabet == {"a", "b", " "}

\* characters of the tails of the large texts
TailAlphabet == {"b", "\n"}

\* characters matched by \s in the model's alphabet (and the usual others)
WhiteSpace == {" ", "\n", "\t", "\r"}

IsSpace(c) == c \in WhiteSpace

Max(x, y) == IF x >= y THEN x ELSE y

Min(x, y) == IF x <= y THEN x ELSE y

SeqsUpTo(S, k) == UNION {[1..l -> S] : l \in 0..k}

ShortTexts == SeqsUpTo(Alphabet, MaxLen)

Tails == SeqsUpTo(TailAlphabet, MaxTail)

\* "a a a ... ": PadTokens characters, every one a token of its own
Pad == [k \in 1..PadTokens |-> IF k % 2 = 1 THEN "a" ELSE " "]

CatSat == <<"c", "a", "t", " ", "s", "a", "t">>

CatRan == <<"c", "a", "t", " ", "r", "a", "n">>

HelloWorld == <<"H", "e", "l", "l", "o", " ", "w", "o", "r", "l", "d">>

HelloThereWorld ==
  <<"H", "e", "l", "l", "o", " ", "t", "h", "e", "r", "e", " ", "w", "o", "r", "l", "d">>

SameText == <<"s", "a", "m", "e", " ", "t", "e", "x", "t">>

\* words offered for insertion into a short text
InsertedWords == {<<"a">>, <<"b">>, <<"a", "b">>}

ScenarioPairs ==
  {<<CatSat, CatRan>>, <<HelloWorld, HelloThereWorld>>, <<SameText, SameText>>,
   <<CatRan, CatSat>>, <<HelloThereWorld, HelloWorld>>}

(***************************************************************************)
(* tokenize: the successive matches of /(\S+|\s+)/g are the maximal runs   *)
(* of whitespace or of non-whitespace characters, in order.                *)
(***************************************************************************)
Indices(s) == [k \in 1..Len(s) |-> k]

TokenStarts(text) ==
  SelectSeq(Indices(text),
            LAMBDA k : k = 1 \/ IsSpace(text[k]) # IsSpace(text[k - 1]))

\* mutant: only the runs of non-whitespace are matched, as by /(\S+)/g
tokenizeWordsOnly(text) ==
  LET all == [k \in 1..Len(TokenStarts(text)) |->
                SubSeq(text, TokenStarts(text)[k],
                       IF k < Len(TokenStarts(text))
                       THEN TokenStarts(text)[k + 1] - 1 ELSE Len(text))]
  IN  SelectSeq(all, LAMBDA tok : ~IsSpace(tok[1]))

\* mutant: every character is a match of its own, as by /(\S|\s)/g
tokenizeLazy(text) == [k \in 1..Len(text) |-> <<text[k]>>]

tokenize(text) ==
  LET st == TokenStarts(text)
  IN  [k \in 1..Len(st) |->
         SubSeq(text, st[k], IF k < Len(st) THEN st[k + 1] - 1 ELSE Len(text))]

\* Array.prototype.join(''): the elements concatenated in order
RECURSIVE JoinRange(_, _, _)
JoinRange(parts, lo, hi) ==
  IF lo > hi THEN <<>>
  ELSE IF lo = hi THEN parts[lo]
  ELSE LET mid == (lo + hi) \div 2
       IN  JoinRange(parts, lo, mid) \o JoinRange(parts, mid + 1, hi)

Join(parts) == JoinRange(parts, 1, Len(parts))

\* String.prototype.split('\n'): the pieces between the newlines, never empty
NewlineAt(text) == SelectSeq(Indices(text), LAMBDA k : text[k] = "\n")

SplitLines(text) ==
  LET nl == NewlineAt(text)
  IN  [k \in 1..(Len(nl) + 1) |->
         SubSeq(text, IF k = 1 THEN 1 ELSE nl[k - 1] + 1,
                      IF k <= Len(nl) THEN nl[k] - 1 ELSE Len(text))]

\* the text whose tokens are those of text with the word wd and a copy of the
\* whitespace token p inserted directly after token p
WithWordInserted(text, p, wd) ==
  LET toks == tokenize(text)
  IN  Join(SubSeq(toks, 1, p) \o <<wd, toks[p]>> \o SubSeq(toks, p + 1, Len(toks)))

WhitespaceTokenAt(text) ==
  {p \in 1..Len(tokenize(text)) : IsSpace(tokenize(text)[p][1])}

(***************************************************************************)
(* diffWords: Size Guard                                                   *)
(***************************************************************************)
\* mutant: the threshold itself already selects the fallback
UseFallbackAtThreshold(m, n) == m * n >= SizeThreshold

UseFallback(m, n) == m * n > SizeThreshold

(***************************************************************************)
(* diffWords: LCS table.  Cells are filled row by row, each store reduced  *)
(* modulo 2^16 as a Uint16Array element is.                                *)
(***************************************************************************)
ZeroTable(m, n) == [r \in 0..m |-> [c \in 0..n |-> 0]]

\* mutant: a mismatch keeps the smaller neighbour
CellValueMin(d, o, w, r, c) ==
  IF o[r] = w[c] THEN d[r - 1][c - 1] + 1
  ELSE Min(d[r - 1][c], d[r][c - 1])

\* mutant: a match adds one to the larger neighbour instead of the diagonal
CellValueGreedy(d, o, w, r, c) ==
  IF o[r] = w[c] THEN Max(d[r - 1][c], d[r][c - 1]) + 1
  ELSE Max(d[r - 1][c], d[r][c - 1])

CellValue(d, o, w, r, c) ==
  IF o[r] = w[c] THEN d[r - 1][c - 1] + 1
  ELSE Max(d[r - 1][c], d[r][c - 1])

StoreCell(d, r, c, v) == [d EXCEPT ![r][c] = v % Uint16Range]

RECURSIVE FillCells(_, _, _, _)
FillCells(d, o, w, k) ==
  IF k > Len(o) * Len(w) THEN d
  ELSE LET r == ((k - 1) \div Len(w)) + 1
           c == ((k - 1) % Len(w)) + 1
       IN  FillCells(StoreCell(d, r, c, CellValue(d, o, w, r, c)), o, w, k + 1)

BuildTable(o, w) == FillCells(ZeroTable(Len(o), Len(w)), o, w, 1)

(***************************************************************************)
(* diffWords: one iteration of the backtracking loop                       *)
(***************************************************************************)
Op(t, x) == [type |-> t, text |-> x]

TakeEqual(o, w, r, c) == r > 0 /\ c > 0 /\ o[r] = w[c]

\* mutant: a tie goes to Delete
TakeInsertStrict(d, r, c) == c > 0 /\ (r = 0 \/ d[r][c - 1] > d[r - 1][c])

TakeInsert(d, r, c) == c > 0 /\ (r = 0 \/ d[r][c - 1] >= d[r - 1][c])

BacktrackOp(d, o, w, r, c) ==
  IF TakeEqual(o, w, r, c) THEN Op("equal", w[c])
  ELSE IF TakeInsert(d, r, c) THEN Op("insert", w[c])
  ELSE Op("delete", o[r])

\* mutant: the delete branch pushes its operation without moving
BacktrackMoveStuck(d, o, w, r, c) ==
  IF TakeEqual(o, w, r, c) THEN <<r - 1, c - 1>>
  ELSE IF TakeInsert(d, r, c) THEN <<r, c - 1>>
  ELSE <<r, c>>

BacktrackMove(d, o, w, r, c) ==
  IF TakeEqual(o, w, r, c) THEN <<r - 1, c - 1>>
  ELSE IF TakeInsert(d, r, c) THEN <<r, c - 1>>
  ELSE <<r - 1, c>>

Reverse(s) == [k \in 1..Len(s) |-> s[Len(s) + 1 - k]]

(***************************************************************************)
(* diffWords: merge of consecutive operations of the same type             *)
(***************************************************************************)
MergeOne(merged, op) ==
  IF Len(merged) > 0 /\ merged[Len(merged)].type = op.type
  THEN [merged EXCEPT ![Len(merged)].text = @ \o op.text]
  ELSE Append(merged, op)

RECURSIVE MergeFrom(_, _, _)
MergeFrom(merged, raw, k) ==
  IF k > Len(raw) THEN merged
  ELSE MergeFrom(MergeOne(merged, raw[k]), raw, k + 1)

\* mutant: the raw operations are returned unmerged
MergeNone(raw) == raw

Merge(raw) == MergeFrom(<<>>, raw, 1)

(***************************************************************************)
(* diffLines: the text of line k with its newline unless it is the last    *)
(***************************************************************************)
\* mutant: the newline of a line is never put back
LineTextNoNewline(lines, k) == lines[k]

LineText(lines, k) == lines[k] \o (IF k < Len(lines) THEN <<"\n">> ELSE <<>>)

(***************************************************************************)
(* The state machine                                                       *)
(***************************************************************************)
\* no clean request is being served
CleanIdle ==
  /\ cleanedText = Null
  /\ cleanReqs = <<>>

\* no process request is being served
ProcessIdle ==
  /\ resumeIds = <<>>
  /\ ri = 0
  /\ results = <<>>
  /\ aborted = FALSE
  /\ processPc = "idle"

\* no upload request is being served
UploadIdle ==
  /\ files = <<>>
  /\ fi = 0
  /\ ei = 0
  /\ uploaded = 0
  /\ onDisk = {}
  /\ uploadPc = "idle"

MergeIdle ==
  /\ mergeRaw = <<>>
  /\ heap = <<>>
  /\ mergedObjs = <<>>
  /\ mk = 0
  /\ mergePc = "idle"

CompareIdle ==
  /\ compareSelection = {}
  /\ compareBarShown = FALSE
  /\ compareBtnDisabled = TRUE

CriteriaIdle ==
  /\ criteriaRows = <<>>
  /\ criteria = <<>>
  /\ collectPc = "idle"

SseIdle ==
  /\ sseClient = "app.js"
  /\ sseSent = <<>>
  /\ sseStream = <<>>
  /\ sseBuffer = <<>>
  /\ sseEventType = <<>>
  /\ sseDataStr = <<>>
  /\ sseHandled = <<>>

ButtonsIdle ==
  /\ selectedFiles = 0
  /\ uploadedResumeIds = 0
  /\ uploadBtnDisabled = TRUE
  /\ processBtnDisabled = TRUE
  /\ uploadsInFlight = 0
  /\ processesInFlight = 0

\* the page script is at rest
PageIdle ==
  /\ MergeIdle
  /\ CompareIdle
  /\ CriteriaIdle
  /\ SseIdle
  /\ ButtonsIdle

\* no request is being served
ServerIdle ==
  /\ version = "memory"
  /\ CleanIdle
  /\ ProcessIdle
  /\ UploadIdle

\* no diff is being computed
DiffIdle ==
  /\ oldText = <<>>
  /\ newText = <<>>
  /\ pc = "idle"
  /\ oldTokens = <<>>
  /\ newTokens = <<>>
  /\ dlOldText = <<>>
  /\ dlNewText = <<>>
  /\ dp = <<>>
  /\ i = 0
  /\ j = 0
  /\ ops = <<>>
  /\ oldLines = <<>>
  /\ newLines = <<>>
  /\ oi = 0
  /\ ni = 0
  /\ result = <<>>
  /\ calls = <<>>

InitAt(a, b, at) ==
  /\ oldText = a
  /\ newText = b
  /\ pc = at
  /\ oldTokens = <<>>
  /\ newTokens = <<>>
  /\ dlOldText = <<>>
  /\ dlNewText = <<>>
  /\ dp = <<>>
  /\ i = 0
  /\ j = 0
  /\ ops = <<>>
  /\ oldLines = <<>>
  /\ newLines = <<>>
  /\ oi = 0
  /\ ni = 0
  /\ result = <<>>
  /\ calls = <<>>
  /\ ServerIdle
  /\ PageIdle

InitWith(a, b) == InitAt(a, b, "buildDiffHTML")

Init ==
  \/ \E a \in ShortTexts, b \in ShortTexts : InitWith(a, b)
  \/ \E p \in ScenarioPairs : InitWith(p[1], p[2])
  \/ \E s \in Tails, t \in Tails : InitWith(Pad \o s, Pad \o t)
  \/ \E a \in ShortTexts, wd \in InsertedWords :
        \E p \in WhitespaceTokenAt(a) : InitWith(a, WithWordInserted(a, p, wd))

\* buildDiffHTML: tokenize(oldText), tokenize(newText), then call diffWords
Tokenize ==
  /\ pc = "buildDiffHTML"
  /\ oldTokens' = tokenize(oldText)
  /\ newTokens' = tokenize(newText)
  /\ pc' = "diffWords"
  /\ UNCHANGED <<oldText, newText, dlOldText, dlNewText, dp, i, j, ops,
                 oldLines, newLines, oi, ni, result>>
  /\ UNCHANGED <<calls, serverVars, pageVars>>

\* diffWords, m * n > 5000000: call diffLines on the joined tokens
EnterFallback ==
  /\ pc = "diffWords"
  /\ UseFallback(Len(oldTokens), Len(newTokens))
  /\ dlOldText' = Join(oldTokens)
  /\ dlNewText' = Join(newTokens)
  /\ oldLines' = SplitLines(Join(oldTokens))
  /\ newLines' = SplitLines(Join(newTokens))
  /\ oi' = 0
  /\ ni' = 0
  /\ ops' = <<>>
  /\ pc' = "diffLines"
  /\ UNCHANGED <<oldText, newText, oldTokens, newTokens, dp, i, j, result>>
  /\ UNCHANGED <<calls, serverVars, pageVars>>

\* diffWords, otherwise: go on to the precise path
EnterPrecise ==
  /\ pc = "diffWords"
  /\ ~UseFallback(Len(oldTokens), Len(newTokens))
  /\ pc' = "table"
  /\ UNCHANGED <<oldText, newText, oldTokens, newTokens, dlOldText, dlNewText,
                 dp, i, j, ops, oldLines, newLines, oi, ni, result>>
  /\ UNCHANGED <<calls, serverVars, pageVars>>

\* mutant: the operation list is not created anew by the call
BuildLcsTableKeepOps ==
  /\ pc = "table"
  /\ dp' = BuildTable(oldTokens, newTokens)
  /\ i' = Len(oldTokens)
  /\ j' = Len(newTokens)
  /\ ops' = ops
  /\ pc' = "backtrack"
  /\ UNCHANGED <<oldText, newText, oldTokens, newTokens, dlOldText, dlNewText,
                 oldLines, newLines, oi, ni, result>>
  /\ UNCHANGED <<calls, serverVars, pageVars>>

\* build the LCS table and start the backtracking at (m, n)
BuildLcsTable ==
  /\ pc = "table"
  /\ dp' = BuildTable(oldTokens, newTokens)
  /\ i' = Len(oldTokens)
  /\ j' = Len(newTokens)
  /\ ops' = <<>>
  /\ pc' = "backtrack"
  /\ UNCHANGED <<oldText, newText, oldTokens, newTokens, dlOldText, dlNewText,
                 oldLines, newLines, oi, ni, result>>
  /\ UNCHANGED <<calls, serverVars, pageVars>>

\* one iteration of while (i > 0 || j > 0); i and j are 1-based token indices
BacktrackStep ==
  /\ pc = "backtrack"
  /\ i > 0 \/ j > 0
  /\ ops' = Append(ops, BacktrackOp(dp, oldTokens, newTokens, i, j))
  /\ i' = BacktrackMove(dp, oldTokens, newTokens, i, j)[1]
  /\ j' = BacktrackMove(dp, oldTokens, newTokens, i, j)[2]
  /\ UNCHANGED <<oldText, newText, pc, oldTokens, newTokens, dlOldText,
                 dlNewText, dp, oldLines, newLines, oi, ni, result>>
  /\ UNCHANGED <<calls, serverVars, pageVars>>

\* loop exit: ops.reverse(), merge, return merged
MergeAndReturn ==
  /\ pc = "backtrack"
  /\ ~(i > 0 \/ j > 0)
  /\ ops' = Reverse(ops)
  /\ result' = Merge(Reverse(ops))
  /\ pc' = "done"
  /\ UNCHANGED <<oldText, newText, oldTokens, newTokens, dlOldText, dlNewText,
                 dp, i, j, oldLines, newLines, oi, ni>>
  /\ UNCHANGED <<calls, serverVars, pageVars>>

\* diffLines, first loop; oi and ni are 0-based as in the source
LinesBoth ==
  /\ pc = "diffLines"
  /\ oi < Len(oldLines) /\ ni < Len(newLines)
  /\ ops' = IF oldLines[oi + 1] = newLines[ni + 1]
            THEN Append(ops, Op("equal", LineText(newLines, ni + 1)))
            ELSE ops \o <<Op("delete", LineText(oldLines, oi + 1)),
                          Op("insert", LineText(newLines, ni + 1))>>
  /\ oi' = oi + 1
  /\ ni' = ni + 1
  /\ UNCHANGED <<oldText, newText, pc, oldTokens, newTokens, dlOldText,
                 dlNewText, dp, i, j, oldLines, newLines, result>>
  /\ UNCHANGED <<calls, serverVars, pageVars>>

\* diffLines, second loop
LinesOldRest ==
  /\ pc = "diffLines"
  /\ ~(oi < Len(oldLines) /\ ni < Len(newLines))
  /\ oi < Len(oldLines)
  /\ ops' = Append(ops, Op("delete", LineText(oldLines, oi + 1)))
  /\ oi' = oi + 1
  /\ UNCHANGED <<oldText, newText, pc, oldTokens, newTokens, dlOldText,
                 dlNewText, dp, i, j, oldLines, newLines, ni, result>>
  /\ UNCHANGED <<calls, serverVars, pageVars>>

\* diffLines, third loop
LinesNewRest ==
  /\ pc = "diffLines"
  /\ ~(oi < Len(oldLines))
  /\ ni < Len(newLines)
  /\ ops' = Append(ops, Op("insert", LineText(newLines, ni + 1)))
  /\ ni' = ni + 1
  /\ UNCHANGED <<oldText, newText, pc, oldTokens, newTokens, dlOldText,
                 dlNewText, dp, i, j, oldLines, newLines, oi, result>>
  /\ UNCHANGED <<calls, serverVars, pageVars>>

\* diffLines returns ops, diffWords returns that value unchanged
LinesReturn ==
  /\ pc = "diffLines"
  /\ ~(oi < Len(oldLines))
  /\ ~(ni < Len(newLines))
  /\ result' = ops
  /\ pc' = "done"
  /\ UNCHANGED <<oldText, newText, oldTokens, newTokens, dlOldText, dlNewText,
                 dp, i, j, ops, oldLines, newLines, oi, ni>>
  /\ UNCHANGED <<calls, serverVars, pageVars>>

Next ==
  \/ Tokenize
  \/ EnterFallback
  \/ EnterPrecise
  \/ BuildLcsTable
  \/ BacktrackStep
  \/ MergeAndReturn
  \/ LinesBoth
  \/ LinesOldRest
  \/ LinesNewRest
  \/ LinesReturn

Spec == Init /\ [][Next]_vars

(***************************************************************************)
(* The Size Guard on texts whose token counts lie around the threshold:    *)
(* tokenize and the test of diffWords, up to the choice of the path.       *)
(***************************************************************************)
\* a text of exactly k tokens: "a a a ..." cut after k characters
AltText(k) == [x \in 1..k |-> IF x % 2 = 1 THEN "a" ELSE " "]

GuardSizes == {0, 1, 2, 1999, 2000, 2001, 2236, 2237, 2499, 2500, 2501}

\* token counts of which one is far larger than 65535 allows a table value to be
AsymmetricSizes == {<<71, 70000>>, <<72, 70000>>}

InitGuard ==
  \/ \E m \in GuardSizes, n \in GuardSizes : InitWith(AltText(m), AltText(n))
  \/ \E p \in AsymmetricSizes : InitWith(AltText(p[1]), AltText(p[2]))

NextGuard ==
  \/ Tokenize
  \/ EnterFallback
  \/ EnterPrecise

SpecGuard == InitGuard /\ [][NextGuard]_vars

(***************************************************************************)
(* diffLines called on its own, on short texts of a few lines.             *)
(***************************************************************************)
\* longest text handed to diffLines directly
MaxLineText == 3

LineAlphabet == {"A", "B", "\n"}

LineTexts == SeqsUpTo(LineAlphabet, MaxLineText)

InitLines == \E a \in LineTexts, b \in LineTexts : InitAt(a, b, "callDiffLines")

\* diffLines(oldText, newText): split both texts, start both indices at 0
DiffLinesCall ==
  /\ pc = "callDiffLines"
  /\ dlOldText' = oldText
  /\ dlNewText' = newText
  /\ oldLines' = SplitLines(oldText)
  /\ newLines' = SplitLines(newText)
  /\ oi' = 0
  /\ ni' = 0
  /\ ops' = <<>>
  /\ pc' = "diffLines"
  /\ UNCHANGED <<oldText, newText, oldTokens, newTokens, dp, i, j, result>>
  /\ UNCHANGED <<calls, serverVars, pageVars>>

NextLines ==
  \/ DiffLinesCall
  \/ LinesBoth
  \/ LinesOldRest
  \/ LinesNewRest
  \/ LinesReturn

SpecLines == InitLines /\ [][NextLines]_vars

(***************************************************************************)
(* tokenize called on its own, on short texts with spaces, tabs, newlines. *)
(***************************************************************************)
\* longest text handed to tokenize directly
MaxTokenText == 4

TokenAlphabet == {"a", "b", " ", "\n", "\t"}

TokenTexts == SeqsUpTo(TokenAlphabet, MaxTokenText)

InitTokenize == \E a \in TokenTexts : InitAt(a, <<>>, "callTokenize")

\* tokenize(text): the loop over regex.exec, returning tokens
TokenizeCall ==
  /\ pc = "callTokenize"
  /\ oldTokens' = tokenize(oldText)
  /\ pc' = "tokenized"
  /\ UNCHANGED <<oldText, newText, newTokens, dlOldText, dlNewText, dp, i, j,
                 ops, oldLines, newLines, oi, ni, result>>
  /\ UNCHANGED <<calls, serverVars, pageVars>>

NextTokenize == TokenizeCall

SpecTokenize == InitTokenize /\ [][NextTokenize]_vars

\* the two loops whose termination is in question, each run to completion:
\* diffWords on short texts, and diffLines called directly on short line texts
\* (diffWords reaches it only past the size threshold)
MaxLoopText == 2
LoopTexts == SeqsUpTo(Alphabet, MaxLoopText)
LoopLineTexts == SeqsUpTo(LineAlphabet, MaxLoopText)

InitLoops ==
  \/ \E a \in LoopTexts, b \in LoopTexts : InitWith(a, b)
  \/ \E a \in LoopLineTexts, b \in LoopLineTexts : InitAt(a, b, "callDiffLines")

NextLoops ==
  \/ Tokenize
  \/ EnterPrecise
  \/ BuildLcsTable
  \/ BacktrackStep
  \/ MergeAndReturn
  \/ DiffLinesCall
  \/ LinesBoth
  \/ LinesOldRest
  \/ LinesNewRest
  \/ LinesReturn

\* the functions are synchronous: a step that is enabled is taken
FairSpec == InitLoops /\ [][NextLoops]_vars /\ WF_vars(NextLoops)

(***************************************************************************)
(* Successive calls of the diff.  After a call has returned, the next call *)
(* starts with new arguments; whatever the previous call left in the       *)
(* variables of the model is still there, and each step of the new call    *)
(* writes what the code creates or assigns in that step.                   *)
(***************************************************************************)
\* number of calls made before the last one
MaxCalls == 2

CallTexts == {<<>>, <<"b">>, <<"a", " ", "b">>}

CallPairs == CallTexts \X CallTexts

\* first calls that take the fallback
LargeCallPairs == {<<Pad \o <<"b">>, Pad \o <<"\n">>>>,
                   <<Pad \o <<"\n">>, Pad \o <<"b">>>>}

InitCalls == \E p \in CallPairs \cup LargeCallPairs : InitWith(p[1], p[2])

\* the page calls buildDiffHTML again
NextCall ==
  /\ pc = "done"
  /\ Len(calls) < MaxCalls
  /\ calls' = Append(calls, <<oldText, newText, result>>)
  /\ \E p \in CallPairs : oldText' = p[1] /\ newText' = p[2]
  /\ pc' = "buildDiffHTML"
  /\ UNCHANGED <<oldTokens, newTokens, dlOldText, dlNewText, dp, i, j, ops,
                 oldLines, newLines, oi, ni, result>>
  /\ UNCHANGED <<serverVars, pageVars>>

NextCalls == Next \/ NextCall

SpecCalls == InitCalls /\ [][NextCalls]_vars

(***************************************************************************)
(* POST /api/resume/:id/clean, for one stored resume.  A request reads the *)
(* resume's cleaned text; if that is truthy it answers with it, otherwise  *)
(* it awaits cleanResumeText, stores what that returns and answers with    *)
(* it.  Requests are served concurrently: others run during the await.     *)
(***************************************************************************)
Versions == {"memory", "sqlite"}

\* number of clean requests made for the resume
MaxCleanRequests == 3

\* texts that cleanResumeText returns: message.content[0].text.trim()
CleanOutputs == {"", "cleaned A", "cleaned B"}

\* if (resume.cleanedText): null and the empty string are falsy
Truthy(text) == text # Null /\ text # ""

\* some clean request has been answered with a cleaned text
CleanSucceeded == \E r \in DOMAIN cleanReqs : cleanReqs[r].pc = "sent"

InitClean ==
  /\ DiffIdle
  /\ PageIdle
  /\ version \in Versions
  /\ cleanedText = Null
  /\ cleanReqs = [r \in 1..MaxCleanRequests |->
                    [pc |-> "idle", afterSuccess |-> FALSE, stored |-> Null,
                     response |-> Null]]
  /\ ProcessIdle
  /\ UploadIdle

\* the handler up to its first await or its cached answer
CleanRequest(r) ==
  /\ cleanReqs[r].pc = "idle"
  /\ cleanReqs' =
       [cleanReqs EXCEPT ![r] =
          [pc |-> IF Truthy(cleanedText) THEN "sent" ELSE "cleanResumeText",
           afterSuccess |-> CleanSucceeded,
           stored |-> cleanedText,
           response |-> IF Truthy(cleanedText) THEN cleanedText ELSE Null]]
  /\ UNCHANGED <<pageVars, diffVars, calls, version, cleanedText, processVars, uploadVars>>

\* cleanResumeText returns: store the text and answer with it
CleanReturn(r) ==
  /\ cleanReqs[r].pc = "cleanResumeText"
  /\ \E text \in CleanOutputs :
       /\ cleanedText' = text
       /\ cleanReqs' = [cleanReqs EXCEPT ![r].pc = "sent", ![r].response = text]
  /\ UNCHANGED <<pageVars, diffVars, calls, version, processVars, uploadVars>>

\* cleanResumeText throws: status 500, nothing stored
CleanThrow(r) ==
  /\ cleanReqs[r].pc = "cleanResumeText"
  /\ cleanReqs' = [cleanReqs EXCEPT ![r].pc = "failed"]
  /\ UNCHANGED <<pageVars, diffVars, calls, version, cleanedText, processVars, uploadVars>>

NextClean ==
  \E r \in 1..MaxCleanRequests :
     \/ CleanRequest(r)
     \/ CleanReturn(r)
     \/ CleanThrow(r)

SpecClean == InitClean /\ [][NextClean]_vars

(***************************************************************************)
(* POST /api/process, one request.  The handler goes through resumeIds in  *)
(* order; an id without a stored resume gets an error entry, otherwise the *)
(* handler awaits the name extraction and the scoring and pushes a scored  *)
(* entry, or an error entry when either throws.  After the loop the        *)
(* results are sorted and sent.  The SQLite version streams events, stops  *)
(* the loop once the client has closed the connection, and records a       *)
(* session before it sends the 'complete' event.                           *)
(***************************************************************************)
\* resumes 1..MaxIds are stored; id 0 has no stored resume
MaxIds == 2
Stored == 1..MaxIds
Ids == 0..MaxIds

\* scores the scoring returns: 0..MaxScore, or none when the parsed JSON has no score
MaxScore == 2
Scores == 0..MaxScore

\* resumeIds of a request: distinct ids
IdLists == {s \in SeqsUpTo(Ids, MaxIds + 1) :
              \A a, b \in 1..Len(s) : a # b => s[a] # s[b]}

ScoredEntry(id, score) == [id |-> id, score |-> score]

\* score: undefined is left out of the entry
UnscoredEntry(id) == [id |-> id, reasoning |-> "none"]

ErrorEntry(id) == [id |-> id, error |-> "message"]

\* mutant: the comparator's operands swapped
ScoreKeyNegated(e) == IF "score" \in DOMAIN e THEN 0 - e.score ELSE 0

\* e.score || 0 in the comparator of results.sort
ScoreKey(e) == IF "score" \in DOMAIN e THEN e.score ELSE 0

\* e put into a list sorted by (b.score || 0) - (a.score || 0), after the
\* entries that do not compare after it (Array.prototype.sort is stable)
RECURSIVE InsertSorted(_, _)
InsertSorted(e, sorted) ==
  IF sorted = <<>> THEN <<e>>
  ELSE IF ScoreKey(Head(sorted)) >= ScoreKey(e)
       THEN <<Head(sorted)>> \o InsertSorted(e, Tail(sorted))
       ELSE <<e>> \o sorted

RECURSIVE SortFrom(_, _)
SortFrom(seq, sorted) ==
  IF seq = <<>> THEN sorted
  ELSE SortFrom(Tail(seq), InsertSorted(Head(seq), sorted))

\* results.sort((a, b) => (b.score || 0) - (a.score || 0))
SortByScore(seq) == SortFrom(seq, <<>>)

InitProcess ==
  /\ DiffIdle
  /\ PageIdle
  /\ version \in Versions
  /\ CleanIdle
  /\ UploadIdle
  /\ resumeIds \in IdLists
  /\ ri = 0
  /\ results = <<>>
  /\ aborted = FALSE
  /\ processPc = "loop"

\* if (aborted) break, in the SQLite version only
LoopBroken == version = "sqlite" /\ aborted

\* the loop is at an id that has no stored resume
ProcessNotFound ==
  /\ processPc = "loop"
  /\ ri < Len(resumeIds)
  /\ ~LoopBroken
  /\ resumeIds[ri + 1] \notin Stored
  /\ results' = Append(results, ErrorEntry(resumeIds[ri + 1]))
  /\ ri' = ri + 1
  /\ UNCHANGED <<pageVars, diffVars, calls, version, cleanVars, resumeIds, aborted,
                 processPc, uploadVars>>

\* the loop is at a stored resume: await Promise.all([...])
ProcessAwaitScore ==
  /\ processPc = "loop"
  /\ ri < Len(resumeIds)
  /\ ~LoopBroken
  /\ resumeIds[ri + 1] \in Stored
  /\ processPc' = "scoring"
  /\ UNCHANGED <<pageVars, diffVars, calls, version, cleanVars, resumeIds, ri, results,
                 aborted, uploadVars>>

\* both promises resolve: push the scored entry
ProcessScored ==
  /\ processPc = "scoring"
  /\ \E e \in {ScoredEntry(resumeIds[ri + 1], s) : s \in Scores}
              \cup {UnscoredEntry(resumeIds[ri + 1])} :
        results' = Append(results, e)
  /\ ri' = ri + 1
  /\ processPc' = "loop"
  /\ UNCHANGED <<pageVars, diffVars, calls, version, cleanVars, resumeIds, aborted,
                 uploadVars>>

\* one of the promises rejects: push an error entry
ProcessScoreThrows ==
  /\ processPc = "scoring"
  /\ results' = Append(results, ErrorEntry(resumeIds[ri + 1]))
  /\ ri' = ri + 1
  /\ processPc' = "loop"
  /\ UNCHANGED <<pageVars, diffVars, calls, version, cleanVars, resumeIds, aborted,
                 uploadVars>>

\* req.on('close'): the client goes away while the handler awaits
ProcessClientCloses ==
  /\ version = "sqlite"
  /\ processPc = "scoring"
  /\ ~aborted
  /\ aborted' = TRUE
  /\ UNCHANGED <<pageVars, diffVars, calls, version, cleanVars, resumeIds, ri, results,
                 processPc, uploadVars>>

\* server.js after the loop: sort and res.json({ results })
ProcessRespond ==
  /\ version = "memory"
  /\ processPc = "loop"
  /\ ri = Len(resumeIds)
  /\ results' = SortByScore(results)
  /\ processPc' = "sent"
  /\ UNCHANGED <<pageVars, diffVars, calls, version, cleanVars, resumeIds, ri, aborted,
                 uploadVars>>

\* SQLite version after the loop: the session is recorded, then sort and
\* sendEvent('complete', ...)
ProcessComplete ==
  /\ version = "sqlite"
  /\ processPc = "loop"
  /\ ri = Len(resumeIds) \/ LoopBroken
  /\ results' = SortByScore(results)
  /\ processPc' = "complete"
  /\ UNCHANGED <<pageVars, diffVars, calls, version, cleanVars, resumeIds, ri, aborted,
                 uploadVars>>

\* SQLite version after the loop: insertSessionResumes throws on an id that
\* is not in the resumes table (foreign key), the catch sends 'error'
ProcessSessionFails ==
  /\ version = "sqlite"
  /\ processPc = "loop"
  /\ ri = Len(resumeIds) \/ LoopBroken
  /\ \E k \in 1..Len(resumeIds) : resumeIds[k] \notin Stored
  /\ processPc' = "error"
  /\ UNCHANGED <<pageVars, diffVars, calls, version, cleanVars, resumeIds, ri, results,
                 aborted, uploadVars>>

NextProcess ==
  \/ ProcessNotFound
  \/ ProcessAwaitScore
  \/ ProcessScored
  \/ ProcessScoreThrows
  \/ ProcessClientCloses
  \/ ProcessRespond
  \/ ProcessComplete
  \/ ProcessSessionFails

SpecProcess == InitProcess /\ [][NextProcess]_vars

(***************************************************************************)
(* POST /api/upload, one request.  multer has stored every file of the     *)
(* request on disk before the handler runs.  server.js extracts each file  *)
(* and unlinks it in a finally block.  The SQLite version also opens ZIP   *)
(* files, writes each resume entry to a temporary file, and stops taking   *)
(* results at 100.  Only results.length is kept of the results; whether a  *)
(* file parsed or not makes one result either way.                         *)
(***************************************************************************)
\* if (results.length >= 100) break
ResultLimit == 100

\* number of files of a request
MaxFiles == 2

\* ZIP files as <<number of resume entries, entry whose getData() throws or 0>>
ZipShapes == {<<0, 0>>, <<2, 0>>, <<2, 2>>, <<99, 0>>, <<100, 0>>, <<101, 0>>}

UploadedFiles ==
  {[kind |-> "regular", entries |-> 0, corruptAt |-> 0],
   [kind |-> "badzip", entries |-> 0, corruptAt |-> 0]}
  \cup {[kind |-> "zip", entries |-> z[1], corruptAt |-> z[2]] : z \in ZipShapes}

\* file.path of the k-th file of the request
UploadPath(k) == <<"upload", k>>

\* tmpPath of entry e of the k-th file
TmpPath(k, e) == <<"zip", k, e>>

InitUpload ==
  /\ DiffIdle
  /\ PageIdle
  /\ version \in Versions
  /\ CleanIdle
  /\ ProcessIdle
  /\ files \in SeqsUpTo(UploadedFiles, MaxFiles) \ {<<>>}
  /\ fi = 0
  /\ ei = 0
  /\ uploaded = 0
  /\ onDisk = {UploadPath(k) : k \in 1..Len(files)}
  /\ uploadPc = "loop"

\* server.js, one iteration: extract, push a result, finally unlink
UploadFileMemory ==
  /\ version = "memory"
  /\ uploadPc = "loop"
  /\ fi < Len(files)
  /\ \E success \in BOOLEAN : uploaded' = uploaded + 1
  /\ onDisk' = onDisk \ {UploadPath(fi + 1)}
  /\ fi' = fi + 1
  /\ UNCHANGED <<pageVars, diffVars, calls, version, cleanVars, processVars, files, ei,
                 uploadPc>>

\* SQLite version, regular file below the limit: processOneFile, push, unlink
UploadRegular ==
  /\ version = "sqlite"
  /\ uploadPc = "loop"
  /\ fi < Len(files)
  /\ files[fi + 1].kind = "regular"
  /\ uploaded < ResultLimit
  /\ \E success \in BOOLEAN : uploaded' = uploaded + 1
  /\ onDisk' = onDisk \ {UploadPath(fi + 1)}
  /\ fi' = fi + 1
  /\ UNCHANGED <<pageVars, diffVars, calls, version, cleanVars, processVars, files, ei,
                 uploadPc>>

\* SQLite version, regular file at the limit: break leaves the loop over the
\* files, and the response is sent
UploadLimitBreak ==
  /\ version = "sqlite"
  /\ uploadPc = "loop"
  /\ fi < Len(files)
  /\ files[fi + 1].kind = "regular"
  /\ uploaded >= ResultLimit
  /\ uploadPc' = "sent"
  /\ UNCHANGED <<pageVars, diffVars, calls, version, cleanVars, processVars, files, fi,
                 ei, uploaded, onDisk>>

\* SQLite version, ZIP file: new AdmZip and getEntries succeed
UploadZipOpen ==
  /\ version = "sqlite"
  /\ uploadPc = "loop"
  /\ fi < Len(files)
  /\ files[fi + 1].kind = "zip"
  /\ ei' = 0
  /\ uploadPc' = "entries"
  /\ UNCHANGED <<pageVars, diffVars, calls, version, cleanVars, processVars, files, fi,
                 uploaded, onDisk>>

\* SQLite version, ZIP file that cannot be opened: the catch pushes a result,
\* then the file is unlinked
UploadZipBad ==
  /\ version = "sqlite"
  /\ uploadPc = "loop"
  /\ fi < Len(files)
  /\ files[fi + 1].kind = "badzip"
  /\ uploaded' = uploaded + 1
  /\ onDisk' = onDisk \ {UploadPath(fi + 1)}
  /\ fi' = fi + 1
  /\ UNCHANGED <<pageVars, diffVars, calls, version, cleanVars, processVars, files, ei,
                 uploadPc>>

\* the loop over the entries goes on with entry ei + 1
EntryTaken ==
  /\ uploadPc = "entries"
  /\ ei < files[fi + 1].entries
  /\ uploaded < ResultLimit

\* a resume entry is written to its temporary file; await processOneFile
UploadWriteEntry ==
  /\ EntryTaken
  /\ files[fi + 1].corruptAt # ei + 1
  /\ onDisk' = onDisk \cup {TmpPath(fi + 1, ei + 1)}
  /\ uploadPc' = "processOneFile"
  /\ UNCHANGED <<pageVars, diffVars, calls, version, cleanVars, processVars, files, fi,
                 ei, uploaded>>

\* processOneFile returns: push the result, finally unlink the temporary file
UploadEntryDone ==
  /\ uploadPc = "processOneFile"
  /\ \E success \in BOOLEAN : uploaded' = uploaded + 1
  /\ onDisk' = onDisk \ {TmpPath(fi + 1, ei + 1)}
  /\ ei' = ei + 1
  /\ uploadPc' = "entries"
  /\ UNCHANGED <<pageVars, diffVars, calls, version, cleanVars, processVars, files, fi>>

\* entry.getData() throws: the catch pushes a result, then the ZIP is unlinked
UploadEntryThrows ==
  /\ EntryTaken
  /\ files[fi + 1].corruptAt = ei + 1
  /\ uploaded' = uploaded + 1
  /\ onDisk' = onDisk \ {UploadPath(fi + 1)}
  /\ fi' = fi + 1
  /\ uploadPc' = "loop"
  /\ UNCHANGED <<pageVars, diffVars, calls, version, cleanVars, processVars, files, ei>>

\* the entries are used up, or the limit breaks the loop over the entries:
\* unlink the ZIP
UploadZipEnd ==
  /\ uploadPc = "entries"
  /\ ~EntryTaken
  /\ onDisk' = onDisk \ {UploadPath(fi + 1)}
  /\ fi' = fi + 1
  /\ uploadPc' = "loop"
  /\ UNCHANGED <<pageVars, diffVars, calls, version, cleanVars, processVars, files, ei,
                 uploaded>>

\* after the last file: res.json({ uploaded: results })
UploadRespond ==
  /\ uploadPc = "loop"
  /\ fi = Len(files)
  /\ uploadPc' = "sent"
  /\ UNCHANGED <<pageVars, diffVars, calls, version, cleanVars, processVars, files, fi,
                 ei, uploaded, onDisk>>

NextUpload ==
  \/ UploadFileMemory
  \/ UploadRegular
  \/ UploadLimitBreak
  \/ UploadZipOpen
  \/ UploadZipBad
  \/ UploadWriteEntry
  \/ UploadEntryDone
  \/ UploadEntryThrows
  \/ UploadZipEnd
  \/ UploadRespond

SpecUpload == InitUpload /\ [][NextUpload]_vars

(***************************************************************************)
(* The merge loop of diffWords on operation objects.  heap[o] is the       *)
(* object with identity o; the operations passed are the objects 1..n.     *)
(* merged.push({ ...op }) creates a new object, and                        *)
(* merged[merged.length - 1].text += op.text writes to the object that the *)
(* last element of merged refers to.                                       *)
(***************************************************************************)
\* longest raw operation sequence
MaxRawOps == 4

Kinds == {"equal", "insert", "delete"}

RawOps == [type : Kinds, text : {<<"a">>, <<" ">>}]

RawSeqs == SeqsUpTo(RawOps, MaxRawOps)

\* mutant: merged.push(op), the raw object itself
PushAlias(h, m, op) == <<h, Append(m, op)>>

\* merged.push({ ...op }): heap and merged after the push of a copy of object op
PushCopy(h, m, op) == <<Append(h, h[op]), Append(m, Len(h) + 1)>>

InitMerge ==
  /\ DiffIdle
  /\ ServerIdle
  /\ CompareIdle
  /\ CriteriaIdle
  /\ SseIdle
  /\ ButtonsIdle
  /\ mergeRaw \in RawSeqs
  /\ heap = mergeRaw
  /\ mergedObjs = <<>>
  /\ mk = 0
  /\ mergePc = "loop"

\* one iteration of for (const op of ops)
MergeStep ==
  /\ mergePc = "loop"
  /\ mk < Len(mergeRaw)
  /\ LET op == mk + 1
         last == mergedObjs[Len(mergedObjs)]
     IN  IF Len(mergedObjs) > 0 /\ heap[last].type = heap[op].type
         THEN /\ heap' = [heap EXCEPT ![last].text = @ \o heap[op].text]
              /\ mergedObjs' = mergedObjs
         ELSE /\ heap' = PushCopy(heap, mergedObjs, op)[1]
              /\ mergedObjs' = PushCopy(heap, mergedObjs, op)[2]
  /\ mk' = mk + 1
  /\ UNCHANGED <<diffVars, calls, serverVars, mergeRaw, mergePc, compareVars,
                 criteriaVars, sseVars, buttonVars>>

\* return merged
MergeReturn ==
  /\ mergePc = "loop"
  /\ mk = Len(mergeRaw)
  /\ mergePc' = "returned"
  /\ UNCHANGED <<diffVars, calls, serverVars, mergeRaw, heap, mergedObjs, mk,
                 compareVars, criteriaVars, sseVars, buttonVars>>

NextMerge == MergeStep \/ MergeReturn

SpecMerge == InitMerge /\ [][NextMerge]_vars

(***************************************************************************)
(* Compare selection of the results page: toggleCompare, the Clear button  *)
(* and renderResults, each followed by updateCompareBar as in the code.    *)
(***************************************************************************)
\* ids of the result cards on the page
MaxCards == 9
CardIds == 1..MaxCards

\* if (compareSelection.size >= 3)
CompareLimit == 3

\* compareBtn.disabled = count < 2
CompareMin == 2

\* the disabled attribute of the Compare button before the script first sets
\* it is whatever the page's markup says
InitCompare ==
  /\ DiffIdle
  /\ ServerIdle
  /\ MergeIdle
  /\ CriteriaIdle
  /\ SseIdle
  /\ ButtonsIdle
  /\ compareSelection = {}
  /\ compareBarShown \in BOOLEAN
  /\ compareBtnDisabled \in BOOLEAN

\* updateCompareBar() for the selection sel: <<bar shown, button disabled>>
updateCompareBar(sel) ==
  IF Cardinality(sel) > 0
  THEN <<TRUE, Cardinality(sel) < CompareMin>>
  ELSE <<FALSE, compareBtnDisabled>>

\* mutant: the limit is tested after the id has been counted
RefusedAbove(checked) == checked /\ Cardinality(compareSelection) > CompareLimit

\* toggleCompare returns at the limit without changing anything
Refused(checked) == checked /\ Cardinality(compareSelection) >= CompareLimit

toggleCompare(id, checked) ==
  /\ IF Refused(checked)
     THEN UNCHANGED compareVars
     ELSE LET sel == IF checked THEN compareSelection \cup {id}
                     ELSE compareSelection \ {id}
          IN  /\ compareSelection' = sel
              /\ compareBarShown' = updateCompareBar(sel)[1]
              /\ compareBtnDisabled' = updateCompareBar(sel)[2]
  /\ UNCHANGED <<diffVars, calls, serverVars, mergeVars, criteriaVars, sseVars,
                 buttonVars>>

\* a checkbox of a card changes, or toggleCompare is called with any arguments
ToggleCompare == \E id \in CardIds, checked \in BOOLEAN : toggleCompare(id, checked)

\* click on the Clear button, and renderResults: clear(), updateCompareBar()
ClearSelection ==
  /\ compareSelection' = {}
  /\ compareBarShown' = updateCompareBar({})[1]
  /\ compareBtnDisabled' = updateCompareBar({})[2]
  /\ UNCHANGED <<diffVars, calls, serverVars, mergeVars, criteriaVars, sseVars,
                 buttonVars>>

NextCompare == ToggleCompare \/ ClearSelection

SpecCompare == InitCompare /\ [][NextCompare]_vars

(***************************************************************************)
(* collectCriteria: the rows with a non-empty name are kept, and their     *)
(* weights are normalised to integers.  A row is [named, weight]: whether  *)
(* its trimmed name is non-empty, and parseFloat(value) || 0.              *)
(***************************************************************************)
\* number of criterion rows in the form
MaxRows == 3

\* largest weight entered; -1 stands for a negative entry
MaxWeight == 3
WeightValues == -1..MaxWeight

\* the weights are normalised to this total
WeightTotal == 100

CriterionRows == [named : BOOLEAN, weight : WeightValues]

RECURSIVE SumFrom(_, _)
SumFrom(ws, k) == IF k > Len(ws) THEN 0 ELSE ws[k] + SumFrom(ws, k + 1)

\* criteria.reduce((a, c) => a + c.weight, 0)
Sum(ws) == SumFrom(ws, 1)

\* Math.round(num / den) for den > 0: the nearest integer, halves upwards
Round(num, den) == (2 * num + den) \div (2 * den)

\* the weights of the rows that have a name, in order
NamedWeights(rows) ==
  LET kept == SelectSeq(rows, LAMBDA r : r.named)
  IN  [k \in 1..Len(kept) |-> kept[k].weight]

\* totalWeight > 0: round each share, add what is missing from 100 to the first
Proportional(ws) ==
  LET rounded == [k \in 1..Len(ws) |-> Round(WeightTotal * ws[k], Sum(ws))]
      diff == WeightTotal - Sum(rounded)
  IN  [rounded EXCEPT ![1] = @ + diff]

\* mutant: every criterion gets the floor of the even share
EvenSplitNoRemainder(n) == [k \in 1..n |-> WeightTotal \div n]

\* otherwise: Math.floor(100 / n) each, the first gets the rest
EvenSplit(n) ==
  LET even == WeightTotal \div n
  IN  [k \in 1..n |-> IF k = 1 THEN WeightTotal - even * (n - 1) ELSE even]

\* forms of more rows than there are percent to give out, all weights equal
LongForms == {[k \in 1..(WeightTotal + 1) |-> [named |-> TRUE, weight |-> w]] :
                w \in {0, 1}}

InitCriteria ==
  /\ DiffIdle
  /\ ServerIdle
  /\ MergeIdle
  /\ CompareIdle
  /\ SseIdle
  /\ ButtonsIdle
  /\ criteriaRows \in SeqsUpTo(CriterionRows, MaxRows) \cup LongForms
  /\ criteria = <<>>
  /\ collectPc = "call"

\* collectCriteria() returns null: no rows, or no row with a name
CollectNull ==
  /\ collectPc = "call"
  /\ Len(NamedWeights(criteriaRows)) = 0
  /\ collectPc' = "null"
  /\ UNCHANGED <<diffVars, calls, serverVars, mergeVars, compareVars,
                 criteriaRows, criteria, sseVars, buttonVars>>

\* collectCriteria() returns the criteria with normalised weights
CollectCriteria ==
  /\ collectPc = "call"
  /\ Len(NamedWeights(criteriaRows)) > 0
  /\ criteria' = IF Sum(NamedWeights(criteriaRows)) > 0
                 THEN Proportional(NamedWeights(criteriaRows))
                 ELSE EvenSplit(Len(NamedWeights(criteriaRows)))
  /\ collectPc' = "returned"
  /\ UNCHANGED <<diffVars, calls, serverVars, mergeVars, compareVars,
                 criteriaRows, sseVars, buttonVars>>

NextCriteria == CollectNull \/ CollectCriteria

SpecCriteria == InitCriteria /\ [][NextCriteria]_vars

(***************************************************************************)
(* Reader of the event stream of a process request.  The server writes     *)
(* each event as "event: <type>\ndata: <json>\n\n".  In the stream "E"     *)
(* stands for the characters "event: " and "D" for "data: ".  Every call   *)
(* of reader.read() delivers some next part of the stream.  The two page   *)
(* scripts differ in where eventType and dataStr are declared: part_000    *)
(* declares them inside the read loop, app.js before it.                   *)
(***************************************************************************)
\* number of events the server writes
MaxEvents == 2

SseClients == {"part_000", "app.js"}

SseEvents == [type : {<<"p">>, <<"r">>}, data : {<<"1">>}]

\* sendEvent(eventType, data)
sendEvent(e) == <<"E">> \o e.type \o <<"\n", "D">> \o e.data \o <<"\n", "\n">>

RECURSIVE WireFrom(_, _)
WireFrom(events, k) ==
  IF k > Len(events) THEN <<>> ELSE sendEvent(events[k]) \o WireFrom(events, k + 1)

\* what the server has written for a sequence of events
Wire(events) == WireFrom(events, 1)

StartsWith(line, c) == Len(line) > 0 /\ line[1] = c

\* the body of for (const line of lines) for one line; st is
\* [eventType, dataStr, handled], an empty eventType standing for null
HandleLine(st, line) ==
  IF StartsWith(line, "E") THEN [st EXCEPT !.eventType = Tail(line)]
  ELSE IF StartsWith(line, "D") THEN [st EXCEPT !.dataStr = Tail(line)]
  ELSE IF line = <<>> /\ st.eventType # <<>> /\ st.dataStr # <<>>
       THEN [eventType |-> <<>>, dataStr |-> <<>>,
             handled |-> Append(st.handled,
                                [type |-> st.eventType, data |-> st.dataStr])]
  ELSE st

RECURSIVE HandleLines(_, _, _)
HandleLines(st, lines, k) ==
  IF k > Len(lines) THEN st
  ELSE HandleLines(HandleLine(st, lines[k]), lines, k + 1)

InitSse ==
  /\ DiffIdle
  /\ ServerIdle
  /\ MergeIdle
  /\ CompareIdle
  /\ CriteriaIdle
  /\ ButtonsIdle
  /\ sseClient \in SseClients
  /\ sseSent \in SeqsUpTo(SseEvents, MaxEvents)
  /\ sseStream = Wire(sseSent)
  /\ sseBuffer = <<>>
  /\ sseEventType = <<>>
  /\ sseDataStr = <<>>
  /\ sseHandled = <<>>

\* one iteration of the read loop for a chunk of n characters
ReadChunk(n) ==
  /\ n \in 1..Len(sseStream)
  /\ LET text == sseBuffer \o SubSeq(sseStream, 1, n)
         lines == SplitLines(text)
         complete == SubSeq(lines, 1, Len(lines) - 1)
         start == IF sseClient = "part_000"
                  THEN [eventType |-> <<>>, dataStr |-> <<>>, handled |-> sseHandled]
                  ELSE [eventType |-> sseEventType, dataStr |-> sseDataStr,
                        handled |-> sseHandled]
         end == HandleLines(start, complete, 1)
     IN  /\ sseBuffer' = lines[Len(lines)]
         /\ sseEventType' = end.eventType
         /\ sseDataStr' = end.dataStr
         /\ sseHandled' = end.handled
  /\ sseStream' = SubSeq(sseStream, n + 1, Len(sseStream))
  /\ UNCHANGED <<diffVars, calls, serverVars, mergeVars, compareVars,
                 criteriaVars, sseClient, sseSent, buttonVars>>

NextSse == \E n \in 1..Len(sseStream) : ReadChunk(n)

SpecSse == InitSse /\ [][NextSse]_vars

(***************************************************************************)
(* Upload and Process buttons of the landing page (app.js).  A click       *)
(* handler runs up to its first await; the rest runs when the request it   *)
(* awaits has finished.  A disabled button receives no click.  The job     *)
(* title and description are filled in.                                    *)
(***************************************************************************)
\* requests of one kind that can be in flight at once, and files selected or
\* uploaded at once
MaxInFlight == 2
MaxPicked == 2

\* fileInput change, drop: selectedFiles = files; uploadBtn.disabled = false
SelectFiles ==
  /\ \E n \in 0..MaxPicked : selectedFiles' = n
  /\ uploadBtnDisabled' = FALSE
  /\ UNCHANGED <<diffVars, calls, serverVars, mergeVars, compareVars,
                 criteriaVars, sseVars, uploadedResumeIds, processBtnDisabled,
                 uploadsInFlight, processesInFlight>>

\* click on Upload, up to await authFetch('/api/upload')
UploadClick ==
  /\ ~uploadBtnDisabled
  /\ selectedFiles > 0
  /\ uploadsInFlight < MaxInFlight
  /\ uploadBtnDisabled' = TRUE
  /\ uploadsInFlight' = uploadsInFlight + 1
  /\ UNCHANGED <<diffVars, calls, serverVars, mergeVars, compareVars,
                 criteriaVars, sseVars, selectedFiles, uploadedResumeIds,
                 processBtnDisabled, processesInFlight>>

\* the upload request is answered with n successfully parsed files
UploadAnswered ==
  /\ uploadsInFlight > 0
  /\ \E n \in 0..MaxPicked :
        /\ uploadedResumeIds' = n
        /\ processBtnDisabled' = (n = 0)
  /\ uploadBtnDisabled' = FALSE
  /\ uploadsInFlight' = uploadsInFlight - 1
  /\ UNCHANGED <<diffVars, calls, serverVars, mergeVars, compareVars,
                 criteriaVars, sseVars, selectedFiles, processesInFlight>>

\* the upload request fails: catch, finally
UploadFails ==
  /\ uploadsInFlight > 0
  /\ uploadBtnDisabled' = FALSE
  /\ uploadsInFlight' = uploadsInFlight - 1
  /\ UNCHANGED <<diffVars, calls, serverVars, mergeVars, compareVars,
                 criteriaVars, sseVars, selectedFiles, uploadedResumeIds,
                 processBtnDisabled, processesInFlight>>

\* the click handler of Process, up to await authFetch('/api/process')
ProcessHandler ==
  /\ uploadedResumeIds > 0
  /\ processesInFlight < MaxInFlight
  /\ processBtnDisabled' = TRUE
  /\ processesInFlight' = processesInFlight + 1
  /\ UNCHANGED <<diffVars, calls, serverVars, mergeVars, compareVars,
                 criteriaVars, sseVars, selectedFiles, uploadedResumeIds,
                 uploadBtnDisabled, uploadsInFlight>>

\* click on Process
ProcessClick == ~processBtnDisabled /\ ProcessHandler

\* Ctrl+Enter: if (!processBtn.disabled) processBtn.click()
CtrlEnter == ~processBtnDisabled /\ ProcessHandler

\* the stream of the process request ends or the request fails: finally
ProcessFinished ==
  /\ processesInFlight > 0
  /\ processBtnDisabled' = FALSE
  /\ processesInFlight' = processesInFlight - 1
  /\ UNCHANGED <<diffVars, calls, serverVars, mergeVars, compareVars,
                 criteriaVars, sseVars, selectedFiles, uploadedResumeIds,
                 uploadBtnDisabled, uploadsInFlight>>

InitButtons ==
  /\ DiffIdle
  /\ ServerIdle
  /\ MergeIdle
  /\ CompareIdle
  /\ CriteriaIdle
  /\ SseIdle
  /\ ButtonsIdle

NextButtons ==
  \/ SelectFiles
  \/ UploadClick
  \/ UploadAnswered
  \/ UploadFails
  \/ ProcessClick
  \/ CtrlEnter
  \/ ProcessFinished

SpecButtons == InitButtons /\ [][NextButtons]_vars

(***************************************************************************)
(* Properties                                                              *)
(***************************************************************************)
\* the texts of the operations of the given kinds, concatenated in order
RECURSIVE ConcatKinds(_, _, _)
ConcatKinds(seq, kinds, k) ==
  IF k > Len(seq) THEN <<>>
  ELSE (IF seq[k].type \in kinds THEN seq[k].text ELSE <<>>)
         \o ConcatKinds(seq, kinds, k + 1)

Returned == pc = "done"

FallbackTaken == UseFallback(Len(oldTokens), Len(newTokens))

HasKind(seq, kind) == \E k \in 1..Len(seq) : seq[k].type = kind

\* C1: on either path the texts of the Equal and Insert operations of the
\* returned sequence, concatenated in order, are exactly the new text.
C1_EqualInsertIsNew ==
  Returned => ConcatKinds(result, {"equal", "insert"}, 1) = newText

\* a fallback run whose result holds both an Equal and an Insert
C1_Witness ==
  /\ Returned
  /\ FallbackTaken
  /\ HasKind(result, "equal")
  /\ HasKind(result, "insert")
  /\ oldText # newText

\* C2: on either path the texts of the Equal and Delete operations of the
\* returned sequence, concatenated in order, are exactly the old text.
C2_EqualDeleteIsOld ==
  Returned => ConcatKinds(result, {"equal", "delete"}, 1) = oldText

\* C3: on either path no two adjacent operations of the returned sequence
\* are of the same kind.
C3_NoAdjacentSameKind ==
  Returned => \A k \in 1..(Len(result) - 1) : result[k].type # result[k + 1].type

\* C4: a text diffed against itself gives one Equal holding the text, or
\* the empty sequence for the empty text, whatever its size.
C4_SelfDiffIsOneEqual ==
  (Returned /\ oldText = newText) =>
     result = IF oldText = <<>> THEN <<>> ELSE <<Op("equal", oldText)>>

\* C5: two empty texts give the empty sequence, an empty old text gives one
\* Insert of the whole new text, an empty new text one Delete of the old.
C5_EmptySide ==
  Returned =>
    /\ (oldText = <<>> /\ newText = <<>>) => result = <<>>
    /\ (oldText = <<>> /\ newText # <<>>) => result = <<Op("insert", newText)>>
    /\ (oldText # <<>> /\ newText = <<>>) => result = <<Op("delete", oldText)>>

\* an empty old text against a new text of several tokens
C5_Witness ==
  /\ Returned
  /\ oldText = <<>>
  /\ Len(newTokens) >= 3
  /\ result = <<Op("insert", newText)>>

\* the tokens of o at the positions in S, in order
Pick(o, S) ==
  LET at == SelectSeq(Indices(o), LAMBDA k : k \in S)
  IN  [k \in 1..Len(at) |-> o[at[k]]]

RECURSIVE IsSubsequence(_, _)
IsSubsequence(sub, w) ==
  IF sub = <<>> THEN TRUE
  ELSE IF w = <<>> THEN FALSE
  ELSE IF Head(sub) = Head(w) THEN IsSubsequence(Tail(sub), Tail(w))
  ELSE IsSubsequence(sub, Tail(w))

\* length of a longest common subsequence, by enumeration
LcsLength(o, w) ==
  LET common == {S \in SUBSET (1..Len(o)) : IsSubsequence(Pick(o, S), w)}
  IN  CHOOSE l \in 0..Len(o) :
        /\ \E S \in common : Cardinality(S) = l
        /\ \A S \in common : Cardinality(S) <= l

CountKind(seq, kind) == Cardinality({k \in 1..Len(seq) : seq[k].type = kind})

PreciseReturned == Returned /\ ~FallbackTaken

\* C6: on the precise path the tokens emitted as Equal number dp[m][n], the
\* length of a longest common subsequence of the two token sequences, and the
\* tokens emitted as Insert or Delete number m + n - 2 * LCS.
C6_MinimalScript ==
  PreciseReturned =>
    LET m == Len(oldTokens)
        n == Len(newTokens)
        l == LcsLength(oldTokens, newTokens)
    IN  /\ dp[m][n] = l
        /\ CountKind(ops, "equal") = l
        /\ CountKind(ops, "insert") + CountKind(ops, "delete") = m + n - 2 * l

\* a precise run with a common subsequence shorter than both token sequences
C6_Witness ==
  /\ PreciseReturned
  /\ CountKind(ops, "equal") >= 2
  /\ CountKind(ops, "insert") >= 1
  /\ CountKind(ops, "delete") >= 1

\* C7: each backtracking step from a cell other than (0, 0) emits the
\* operation and makes the move of the three-rule priority: Equal and the
\* diagonal move when both tokens exist and are equal; otherwise Insert and a
\* move to (i, j-1) when j > 0 and (i = 0 or dp[i][j-1] >= dp[i-1][j]);
\* otherwise Delete and a move to (i-1, j).
C7_BacktrackRules ==
  [][(pc = "backtrack" /\ (i > 0 \/ j > 0)) =>
       IF i > 0 /\ j > 0 /\ oldTokens[i] = newTokens[j]
       THEN /\ ops' = Append(ops, [type |-> "equal", text |-> newTokens[j]])
            /\ i' = i - 1 /\ j' = j - 1
       ELSE IF j > 0 /\ (i = 0 \/ dp[i][j - 1] >= dp[i - 1][j])
       THEN /\ ops' = Append(ops, [type |-> "insert", text |-> newTokens[j]])
            /\ i' = i /\ j' = j - 1
       ELSE /\ ops' = Append(ops, [type |-> "delete", text |-> oldTokens[i]])
            /\ i' = i - 1 /\ j' = j]_vars

\* an Insert has just been emitted from a cell (i, j+1) with i > 0 where
\* dp[i][j] = dp[i-1][j+1]
C7_Witness ==
  /\ pc = "backtrack"
  /\ Len(ops) > 0
  /\ ops[Len(ops)].type = "insert"
  /\ i > 0
  /\ oldTokens[i] # newTokens[j + 1]
  /\ dp[i][j] = dp[i - 1][j + 1]

IsWord(tok) == ~IsSpace(tok[1])

\* the token sequences differ in exactly one position k, a word in both
OneWordReplaced(o, w, k) ==
  /\ Len(o) = Len(w)
  /\ k \in 1..Len(o)
  /\ o[k] # w[k]
  /\ IsWord(o[k]) /\ IsWord(w[k])
  /\ \A q \in 1..Len(o) : q # k => o[q] = w[q]

\* C8: "cat sat" against "cat ran" gives Equal("cat "), Delete("sat"),
\* Insert("ran"); on the precise path a replaced word shows as the Delete of
\* the old word immediately followed by the Insert of the new word, and no
\* Insert is immediately followed by a Delete.
C8_DeleteBeforeInsert ==
  PreciseReturned =>
    /\ (oldText = CatSat /\ newText = CatRan) =>
          result = <<Op("equal", <<"c", "a", "t", " ">>),
                     Op("delete", <<"s", "a", "t">>),
                     Op("insert", <<"r", "a", "n">>)>>
    /\ \A k \in 1..Len(oldTokens) :
          OneWordReplaced(oldTokens, newTokens, k) =>
            \E q \in 1..(Len(result) - 1) :
               /\ result[q] = Op("delete", oldTokens[k])
               /\ result[q + 1] = Op("insert", newTokens[k])
    /\ \A q \in 1..(Len(result) - 1) :
          ~(result[q].type = "insert" /\ result[q + 1].type = "delete")

\* the run on "cat sat" and "cat ran" has returned
C8_Witness ==
  /\ PreciseReturned
  /\ oldText = CatSat
  /\ newText = CatRan
  /\ Len(result) = 3

\* C10: the fallback is entered exactly when m * n > 5000000; a product of
\* 5000000 or less goes to the precise path; and the texts handed to
\* diffLines are the original old and new texts.
C10_SizeGuard ==
  LET m == Len(oldTokens)
      n == Len(newTokens)
  IN  /\ pc = "diffLines" =>
            /\ m * n > 5000000
            /\ dlOldText = oldText
            /\ dlNewText = newText
      /\ pc = "table" => m * n <= 5000000

\* the precise path has been chosen with a product of exactly 5000000
C10_Witness ==
  /\ pc = "table"
  /\ Len(oldTokens) * Len(newTokens) = 5000000

\* the fallback has been chosen with the smallest product above the threshold
\* that the sizes offer
C10_WitnessFallback ==
  /\ pc = "diffLines"
  /\ Len(oldTokens) = 2000
  /\ Len(newTokens) = 2501

\* w is o with a word and a copy of the whitespace token o[p] inserted
\* directly after o[p]
WordInsertedAt(o, w, p) ==
  /\ p \in 1..Len(o)
  /\ IsSpace(o[p][1])
  /\ Len(w) = Len(o) + 2
  /\ IsWord(w[p + 1])
  /\ w = SubSeq(o, 1, p) \o <<w[p + 1], o[p]>> \o SubSeq(o, p + 1, Len(o))

EqualRun(toks) == IF toks = <<>> THEN <<>> ELSE <<Op("equal", Join(toks))>>

Hello == <<"H", "e", "l", "l", "o">>

There == <<"t", "h", "e", "r", "e">>

World == <<"w", "o", "r", "l", "d">>

\* C9 as stated: "Hello world" against "Hello there world" gives
\* Equal("Hello "), Insert("there "), Equal("world"); after such an insertion
\* the whitespace before the inserted word closes the leading Equal run and
\* the Insert run is the inserted word followed by its whitespace.
C9_Original ==
  PreciseReturned =>
    /\ (oldText = HelloWorld /\ newText = HelloThereWorld) =>
          result = <<Op("equal", Hello \o <<" ">>),
                     Op("insert", There \o <<" ">>),
                     Op("equal", World)>>
    /\ \A p \in 1..Len(oldTokens) :
          WordInsertedAt(oldTokens, newTokens, p) =>
            result = EqualRun(SubSeq(oldTokens, 1, p))
                       \o <<Op("insert", newTokens[p + 1] \o oldTokens[p])>>
                       \o EqualRun(SubSeq(oldTokens, p + 1, Len(oldTokens)))

\* C9 (amended): "Hello world" against "Hello there world" gives
\* Equal("Hello"), Insert(" there"), Equal(" world"); when a word and a copy of
\* the whitespace token before it are inserted directly after that whitespace
\* token, and the inserted word differs from the word before the whitespace
\* token (or nothing precedes it), the Insert run is the whitespace token
\* followed by the inserted word, the leading Equal run ends before that
\* whitespace token, and the trailing Equal run begins with the whitespace
\* that follows the inserted word.
C9_InsertTakesLeadingSpace ==
  PreciseReturned =>
    /\ (oldText = HelloWorld /\ newText = HelloThereWorld) =>
          result = <<Op("equal", Hello),
                     Op("insert", <<" ">> \o There),
                     Op("equal", <<" ">> \o World)>>
    /\ \A p \in 1..Len(oldTokens) :
          (/\ WordInsertedAt(oldTokens, newTokens, p)
           /\ (p = 1 \/ oldTokens[p - 1] # newTokens[p + 1])) =>
            result = EqualRun(SubSeq(oldTokens, 1, p - 1))
                       \o <<Op("insert", oldTokens[p] \o newTokens[p + 1])>>
                       \o EqualRun(SubSeq(oldTokens, p, Len(oldTokens)))

\* the run on "Hello world" and "Hello there world" has returned
C9_Witness ==
  /\ PreciseReturned
  /\ oldText = HelloWorld
  /\ newText = HelloThereWorld
  /\ WordInsertedAt(oldTokens, newTokens, 2)
  /\ Len(result) = 3

\* a word inserted between two words of a short text
C9_WitnessGeneral ==
  /\ PreciseReturned
  /\ WordInsertedAt(oldTokens, newTokens, 2)
  /\ Len(oldTokens) = 3
  /\ oldTokens[1] # newTokens[3]
  /\ Len(result) = 3

\* diffLines has run and returned (its line arrays are never empty)
LinesReturned == Returned /\ Len(oldLines) > 0

\* a text without the newline that ends it, if one does
StripNewline(text) ==
  IF Len(text) > 0 /\ text[Len(text)] = "\n" THEN SubSeq(text, 1, Len(text) - 1)
  ELSE text

\* an Equal reduced to the line it stands for
EqualAsLine(op) == IF op.type = "equal" THEN Op("equal", StripNewline(op.text)) ELSE op

WithNewlineUnlessLast(lines, k) ==
  IF k = Len(lines) THEN lines[k] ELSE lines[k] \o <<"\n">>

\* the operations a strictly positional comparison of the lines o and w gives
RECURSIVE Positional(_, _, _)
Positional(o, w, k) ==
  IF k > Len(o) /\ k > Len(w) THEN <<>>
  ELSE (IF k <= Len(o) /\ k <= Len(w)
        THEN (IF o[k] = w[k] THEN <<Op("equal", w[k])>>
              ELSE <<Op("delete", WithNewlineUnlessLast(o, k)),
                     Op("insert", WithNewlineUnlessLast(w, k))>>)
        ELSE IF k <= Len(o) THEN <<Op("delete", WithNewlineUnlessLast(o, k))>>
        ELSE <<Op("insert", WithNewlineUnlessLast(w, k))>>)
       \o Positional(o, w, k + 1)

TextAB == <<"A", "\n", "B">>

TextBA == <<"B", "\n", "A">>

\* C11: the fallback compares line k of the old text with line k of the new
\* text only: an Equal for equal lines, otherwise a Delete of the old line
\* followed by an Insert of the new line, then only Deletes or only Inserts
\* for the lines one text has more; "A\nB" against "B\nA" gives Delete("A\n"),
\* Insert("B\n"), Delete("B"), Insert("A").
C11_Positional ==
  LinesReturned =>
    /\ [k \in 1..Len(result) |-> EqualAsLine(result[k])]
         = Positional(oldLines, newLines, 1)
    /\ (dlOldText = TextAB /\ dlNewText = TextBA) =>
          result = <<Op("delete", <<"A", "\n">>), Op("insert", <<"B", "\n">>),
                     Op("delete", <<"B">>), Op("insert", <<"A">>)>>

\* diffLines has returned on "A\nB" and "B\nA"
C11_Witness ==
  /\ LinesReturned
  /\ dlOldText = TextAB
  /\ dlNewText = TextBA
  /\ Len(result) = 4

\* tokenize has returned the tokens of oldText
Tokenized == pc \in {"tokenized", "diffWords", "table", "backtrack"}

\* C12: for every text, the empty one included, the tokens tokenize returns
\* concatenate in order to exactly the text; the empty text has no token.
C12_TokenizeLossless ==
  Tokenized =>
    /\ Join(oldTokens) = oldText
    /\ oldText = <<>> => oldTokens = <<>>

\* a text of several tokens with a tab or a newline has been tokenized
C12_Witness ==
  /\ pc = "tokenized"
  /\ Len(oldTokens) >= 3
  /\ \E k \in 1..Len(oldText) : oldText[k] \in {"\t", "\n"}

AllSpace(tok) == \A k \in 1..Len(tok) : IsSpace(tok[k])

NoSpace(tok) == \A k \in 1..Len(tok) : ~IsSpace(tok[k])

\* C13: every token is non-empty and either all whitespace or all
\* non-whitespace, and adjacent tokens are of different classes.
C13_TokensAlternate ==
  Tokenized =>
    /\ \A k \in 1..Len(oldTokens) :
          /\ oldTokens[k] # <<>>
          /\ AllSpace(oldTokens[k]) \/ NoSpace(oldTokens[k])
    /\ \A k \in 1..(Len(oldTokens) - 1) :
          AllSpace(oldTokens[k]) # AllSpace(oldTokens[k + 1])

\* three tokens, the middle one a whitespace run of two different characters
C13_Witness ==
  /\ pc = "tokenized"
  /\ Len(oldTokens) = 3
  /\ Len(oldTokens[2]) = 2
  /\ AllSpace(oldTokens[2])
  /\ oldTokens[2][1] # oldTokens[2][2]

\* the table-building loops of diffWords have run
TableBuilt == pc = "backtrack" \/ (PreciseReturned /\ Len(oldLines) = 0)

\* C14: after the table-building loops dp[r][c] is the length of a longest
\* common subsequence of the first r old tokens and the first c new tokens,
\* and row 0 and column 0 are 0.
C14_TableIsLcs ==
  TableBuilt =>
    \A r \in 0..Len(oldTokens), c \in 0..Len(newTokens) :
       /\ dp[r][c] = LcsLength(SubSeq(oldTokens, 1, r), SubSeq(newTokens, 1, c))
       /\ (r = 0 \/ c = 0) => dp[r][c] = 0

\* a table whose last cell is at least 2 and below both token counts
C14_Witness ==
  /\ pc = "backtrack"
  /\ dp[Len(oldTokens)][Len(newTokens)] >= 2
  /\ dp[Len(oldTokens)][Len(newTokens)] < Min(Len(oldTokens), Len(newTokens))

\* C15: on the precise path min(m, n) is at most 65535, every value stored in
\* the table is at most min(m, n), and no value is reduced modulo 2^16 by the
\* store into its Uint16Array row.
C15_TableFitsUint16 ==
  LET m == Len(oldTokens)
      n == Len(newTokens)
  IN  /\ pc = "table" => Min(m, n) <= 65535
      /\ TableBuilt =>
           \A r \in 0..m, c \in 0..n :
              /\ dp[r][c] <= Min(m, n)
              /\ dp[r][c] <= 65535
              /\ (r > 0 /\ c > 0) =>
                    dp[r][c] = CellValue(dp, oldTokens, newTokens, r, c)

\* a table of different side lengths whose last cell reaches the shorter side
C15_Witness ==
  /\ pc = "backtrack"
  /\ Len(oldTokens) >= Len(newTokens) + 2
  /\ Len(newTokens) >= 2
  /\ dp[Len(oldTokens)][Len(newTokens)] = Len(newTokens)

\* the precise path chosen for a new text of 70000 tokens
C15_WitnessAsymmetric ==
  /\ pc = "table"
  /\ Len(newTokens) = 70000
  /\ Len(oldTokens) = 71

\* the backtracking loop stays inside the table and has made at most
\* m + n - (i + j) iterations (one operation is pushed per iteration)
BacktrackInBounds ==
  pc = "backtrack" =>
     /\ i \in 0..Len(oldTokens)
     /\ j \in 0..Len(newTokens)
     /\ DOMAIN dp = 0..Len(oldTokens)
     /\ \A r \in DOMAIN dp : DOMAIN dp[r] = 0..Len(newTokens)
     /\ Len(ops) <= Len(oldTokens) + Len(newTokens) - (i + j)

\* the line indices stay inside their arrays; Max(oi, ni) counts the iterations
LinesInBounds ==
  pc = "diffLines" =>
     /\ oi \in 0..Len(oldLines)
     /\ ni \in 0..Len(newLines)
     /\ (oi # ni) => (oi = Len(oldLines) \/ ni = Len(newLines))

\* one iteration of the backtracking loop
BacktrackDecreases ==
  (pc = "backtrack" /\ pc' = "backtrack") =>
     /\ i' + j' < i + j
     /\ i' >= 0
     /\ j' >= 0
     /\ Len(ops') = Len(ops) + 1

\* one iteration of any of the three loops of diffLines
LinesAdvance ==
  (pc = "diffLines" /\ pc' = "diffLines") =>
     /\ Max(oi', ni') = Max(oi, ni) + 1
     /\ oi' >= oi
     /\ ni' >= ni

\* C17: the diff terminates: each backtracking iteration decreases i + j and
\* keeps i, j >= 0 inside the table, so at most m + n iterations are made; each
\* fallback iteration advances a line index, so at most max(old lines, new
\* lines) are made; and the call returns.
C17_Terminates ==
  /\ [](BacktrackInBounds /\ LinesInBounds)
  /\ [][BacktrackDecreases /\ LinesAdvance]_vars
  /\ <>(pc = "done")

\* a precise diff that needed the full m + n iterations
C17_Witness ==
  /\ PreciseReturned
  /\ Len(oldTokens) >= 2
  /\ Len(newTokens) >= 1
  /\ Len(ops) = Len(oldTokens) + Len(newTokens)

\* a fallback diff whose second loop ran after the first
C17_WitnessFallback ==
  /\ LinesReturned
  /\ ni > 0
  /\ oi > ni

C16_WitnessAfterFallback ==
  /\ Returned
  /\ Len(calls) >= 1
  /\ Len(calls[1][1]) > PadTokens
  /\ Len(result) >= 2

\* C18: a clean request that arrives after one has been answered with a
\* cleaned text is answered with the stored cleaned text, without a call of
\* the AI cleaner.
C18_CachedAfterFirst ==
  \A r \in DOMAIN cleanReqs :
     cleanReqs[r].afterSuccess =>
        /\ cleanReqs[r].pc = "sent"
        /\ cleanReqs[r].response = cleanReqs[r].stored

\* a request that arrived after a non-empty cleaned text was stored
C18_WitnessCached ==
  \E r \in DOMAIN cleanReqs :
     /\ cleanReqs[r].afterSuccess
     /\ cleanReqs[r].pc = "sent"
     /\ cleanReqs[r].response = cleanReqs[r].stored
     /\ Truthy(cleanReqs[r].stored)

\* the final results list has been sent
FinalResultsSent == processPc \in {"sent", "complete"}

\* the score of an entry, an entry without one counted as 0
ScoreOrZero(e) == IF "score" \in DOMAIN e THEN e.score ELSE 0

C19_WitnessAborted ==
  /\ processPc = "complete"
  /\ aborted
  /\ Len(results) < Len(resumeIds)

\* C20: when the upload request has been answered, every file it stored on
\* disk, uploads and temporary files of ZIP entries, has been deleted.
C20_AllFilesDeleted == uploadPc = "sent" => onDisk = {}

\* a request of the SQLite version answered with all its files deleted, one
\* of them a ZIP whose entries reached the limit
C20_WitnessDeleted ==
  /\ uploadPc = "sent"
  /\ version = "sqlite"
  /\ uploaded >= ResultLimit
  /\ onDisk = {}

\* C24: the uploaded list that the SQLite version answers with has at most
\* 100 entries.
C24_AtMostLimit ==
  (version = "sqlite" /\ uploadPc = "sent") => uploaded <= ResultLimit

\* an answer with exactly 100 entries from a ZIP of 101 resume entries
C24_WitnessCapped ==
  /\ version = "sqlite"
  /\ uploadPc = "sent"
  /\ uploaded = ResultLimit
  /\ \E k \in 1..Len(files) : files[k].entries > ResultLimit

\* C26: no operation of a returned diff has an empty text.
C26_NoEmptyText ==
  Returned => \A k \in 1..Len(result) : Len(result[k].text) > 0

\* a precise diff of all three kinds, none of them empty
C26_WitnessPrecise ==
  /\ PreciseReturned
  /\ HasKind(result, "equal") /\ HasKind(result, "insert") /\ HasKind(result, "delete")
  /\ \A k \in 1..Len(result) : Len(result[k].text) > 0

\* the operations that the returned array refers to
MergedOps == [k \in 1..Len(mergedObjs) |-> heap[mergedObjs[k]]]

\* the kinds of a sequence of operations with consecutive repeats collapsed
RECURSIVE CollapsedKinds(_, _)
CollapsedKinds(seq, k) ==
  IF k > Len(seq) THEN <<>>
  ELSE IF k > 1 /\ seq[k].type = seq[k - 1].type THEN CollapsedKinds(seq, k + 1)
  ELSE <<seq[k].type>> \o CollapsedKinds(seq, k + 1)

\* C21: the merge keeps, for each kind, the concatenation of the texts of
\* that kind; the kinds of its output are the raw kinds with consecutive
\* repeats collapsed; the raw operation objects keep their values; and
\* merging the merged sequence gives it back.
C21_MergePreserves ==
  mergePc = "returned" =>
     /\ \A kind \in Kinds :
           ConcatKinds(MergedOps, {kind}, 1) = ConcatKinds(mergeRaw, {kind}, 1)
     /\ [k \in 1..Len(MergedOps) |-> MergedOps[k].type] = CollapsedKinds(mergeRaw, 1)
     /\ \A o \in 1..Len(mergeRaw) : heap[o] = mergeRaw[o]
     /\ MergedOps = Merge(mergeRaw)
     /\ Merge(MergedOps) = MergedOps

\* four raw operations of two kinds merged into two
C21_Witness ==
  /\ mergePc = "returned"
  /\ Len(mergeRaw) >= 4
  /\ Len(mergedObjs) = 2
  /\ Len(MergedOps[1].text) = 2

\* C22: compareSelection never holds more than 3 ids; a step taken with 3
\* ids selected adds none; and while the selection is not empty the compare
\* bar is shown and the Compare button is enabled exactly when at least 2
\* ids are selected.
C22_SelectionBounded ==
  /\ [](/\ Cardinality(compareSelection) <= 3
        /\ compareSelection # {} =>
              /\ compareBarShown
              /\ ~compareBtnDisabled <=> Cardinality(compareSelection) >= 2)
  /\ [][Cardinality(compareSelection) = 3 =>
           compareSelection' \subseteq compareSelection]_vars

\* three ids selected, the bar shown, the button enabled
C22_Witness ==
  /\ Cardinality(compareSelection) = 3
  /\ compareBarShown
  /\ ~compareBtnDisabled

\* C23: when collectCriteria returns a list, it has one integer weight per
\* named row and the weights add up to exactly 100.
C23_WeightsSumTo100 ==
  collectPc = "returned" =>
     /\ Len(criteria) = Len(NamedWeights(criteriaRows))
     /\ Len(criteria) >= 1
     /\ \A k \in 1..Len(criteria) : criteria[k] \in Int
     /\ Sum(criteria) = 100

\* three equal positive weights: 33 each after rounding, the first made 34
C23_Witness ==
  /\ collectPc = "returned"
  /\ Sum(NamedWeights(criteriaRows)) > 0
  /\ criteria = <<34, 33, 33>>

\* three criteria of total weight 0: even split, the first gets 34
C23_WitnessZeroTotal ==
  /\ collectPc = "returned"
  /\ Sum(NamedWeights(criteriaRows)) = 0
  /\ criteria = <<34, 33, 33>>


\* 101 criteria of weight 0: the first gets 100 and the others 0
C23_WitnessLongForm ==
  /\ collectPc = "returned"
  /\ Len(criteria) = 101
  /\ criteria[1] = 100
  /\ criteria[2] = 0

\* C25: when the stream has been read to its end by the reader of
\* part_000, the events passed to handleSSEEvent are the events the server
\* wrote, each once and in order.
C25_EveryEventHandled ==
  (sseClient = "part_000" /\ sseStream = <<>>) => sseHandled = sseSent

\* the reader of app.js hands over every event, however the stream is split
C25_AppJsHandlesAll ==
  (sseClient = "app.js" /\ sseStream = <<>>) => sseHandled = sseSent

\* the reader of part_000 has handed over two events read in several chunks
C25_WitnessHandled ==
  /\ sseClient = "part_000"
  /\ sseStream = <<>>
  /\ Len(sseSent) = 2
  /\ sseHandled = sseSent

\* C27: at most one process request of the page is in flight, and the
\* Process button is disabled while one is.
C27_OneProcessInFlight ==
  /\ processesInFlight <= 1
  /\ processesInFlight = 1 => processBtnDisabled

\* a process request in flight with the button disabled
C27_WitnessDisabled ==
  /\ processesInFlight = 1
  /\ processBtnDisabled

====
